---- MODULE Spec2Model ----
(***************************************************************************)
(* kvfifo<K, V> (src/kvfifo.h): a FIFO queue of (key, value) entries with  *)
(* a per-key index, copy-on-write sharing of the storage between instances *)
(* and a rollback guard around every mutating call.                        *)
(*                                                                         *)
(* The state is a set of kvfifo instances (dataPtr, unshareable), the heap *)
(* of container_t cells they point at, and one outstanding mutable         *)
(* reference handed out by a non-const accessor.  A list node is a record  *)
(* [id, first, second]; id stands for the node's address, and the          *)
(* iterators stored in iterator_list_map are ids.                          *)
(***************************************************************************)
EXTENDS Integers, Sequences, FiniteSets, TLC

\* Bounds of the model.
NumInst == 2
MaxNodes == 4
MaxKey == 2
MaxVal == 2

Inst == 1..NumInst
Key == 1..MaxKey
Val == 1..MaxVal
\* Addresses of container_t cells: one more than instances, for the cell a
\* call allocates before it releases another.
Cell == 1..(NumInst + 1)
NULL == 0

VARIABLES live, dataPtr, unshareable, heap, ref, keep, crashed, fifo

vars == <<live, dataPtr, unshareable, heap, ref, keep, crashed, fifo>>

-----------------------------------------------------------------------------
(* std::list<std::pair<K const, V>> and std::map<K, std::list<iterator>>   *)

EmptyMap == [k \in {} |-> <<>>]

EmptyContainer == [pair_list |-> <<>>, iterator_list_map |-> EmptyMap]

ListIds(l) == {l[p].id : p \in 1..Len(l)}

\* The address of a newly allocated list node: any address not in use.
FreshId(l) ==
    CHOOSE n \in 1..(Len(l) + 1) :
        /\ n \notin ListIds(l)
        /\ \A m \in 1..(Len(l) + 1) : m \notin ListIds(l) => n <= m

Deref(l, it) == l[CHOOSE p \in 1..Len(l) : l[p].id = it]

list_push_back(l, k, v) == Append(l, [id |-> FreshId(l), first |-> k, second |-> v])

list_pop_back(l) == SubSeq(l, 1, Len(l) - 1)

\* Mutant: pop_back() where pop_front() is meant.
list_pop_front_back(l) == SubSeq(l, 1, Len(l) - 1)

list_pop_front(l) == Tail(l)

list_erase(l, it) == SelectSeq(l, LAMBDA n : n.id # it)

\* Mutant: the node is spliced before begin().
list_splice_begin(l, it) == <<Deref(l, it)>> \o list_erase(l, it)

\* pair_list.splice(pair_list.end(), pair_list, it)
list_splice_end(l, it) == Append(list_erase(l, it), Deref(l, it))

map_insert(m, k, lst) ==
    IF k \in DOMAIN m THEN m
    ELSE [x \in DOMAIN m \cup {k} |-> IF x = k THEN lst ELSE m[x]]

\* Mutant: the bucket is left in the map.
map_erase_none(m, k) == m

map_erase(m, k) == [x \in DOMAIN m \ {k} |-> m[x]]

\* std::map keeps its keys ordered: the p-th key met when iterating from
\* cbegin().
map_key_at(m, p) ==
    CHOOSE k \in DOMAIN m : Cardinality({x \in DOMAIN m : x < k}) = p - 1

-----------------------------------------------------------------------------
(* container_t(container_t const &)                                        *)

\* Mutant: the clone takes each entry at its front (push_front).
RECURSIVE CopyListFront(_, _)
CopyListFront(src, new_list) ==
    IF src = <<>> THEN new_list
    ELSE CopyListFront(Tail(src),
             <<[id |-> FreshId(new_list), first |-> Head(src).first,
                second |-> Head(src).second]>> \o new_list)

RECURSIVE CopyList(_, _)
CopyList(src, new_list) ==
    IF src = <<>> THEN new_list
    ELSE CopyList(Tail(src), list_push_back(new_list, Head(src).first, Head(src).second))

\* Mutant: a reference is put at the front of its bucket, not at the back.
RECURSIVE BuildMapFront(_, _, _)
BuildMapFront(new_list, p, new_map) ==
    IF p > Len(new_list) THEN new_map
    ELSE LET it == new_list[p].id
             k == new_list[p].first
         IN  BuildMapFront(new_list, p + 1,
                 IF k \notin DOMAIN new_map
                 THEN map_insert(new_map, k, <<it>>)
                 ELSE [new_map EXCEPT ![k] = <<it>> \o @])

RECURSIVE BuildMap(_, _, _)
BuildMap(new_list, p, new_map) ==
    IF p > Len(new_list) THEN new_map
    ELSE LET it == new_list[p].id
             k == new_list[p].first
         IN  BuildMap(new_list, p + 1,
                 IF k \notin DOMAIN new_map
                 THEN map_insert(new_map, k, <<it>>)
                 ELSE [new_map EXCEPT ![k] = Append(@, it)])

container_copy(other) ==
    LET new_list == CopyList(other.pair_list, <<>>)
    IN  [pair_list |-> new_list, iterator_list_map |-> BuildMap(new_list, 1, EmptyMap)]

-----------------------------------------------------------------------------
(* The machine state a call works on: S = [live, dataPtr, unshareable,     *)
(* heap].  A call returns R = [s, status, cloned, ret, tgt]: the state it  *)
(* leaves, "ok" or the error it throws, whether aboutToModify cloned, the  *)
(* (key, value) it returns and the node its returned V& refers to.         *)

Cur == [live |-> live, dataPtr |-> dataPtr, unshareable |-> unshareable, heap |-> heap]

Used(S) == {S.dataPtr[j] : j \in {m \in Inst : S.live[m]}} \ {NULL}

\* shared_ptr::use_count(): the instances holding the cell plus the other
\* holders (guards, temporaries) the caller counts.
use_count(S, c, others) ==
    Cardinality({j \in Inst : S.live[j] /\ S.dataPtr[j] = c}) + others

NewCell(S) ==
    CHOOSE c \in Cell :
        /\ c \notin Used(S)
        /\ \A d \in Cell : d \notin Used(S) => c <= d

\* dataPtr = std::make_shared<container_t>(cont)
make_shared(S, i, cont) ==
    [S EXCEPT !.heap[NewCell(S)] = cont, !.dataPtr[i] = NewCell(S)]

NoTgt == [cell |-> NULL, node |-> 0]

Result(S, st, cl, rt, tg) == [s |-> S, status |-> st, cloned |-> cl, ret |-> rt, tgt |-> tg]

Throw(S, st) == Result(S, st, FALSE, <<>>, NoTgt)

Done(S, cl) == Result(S, "ok", cl, <<>>, NoTgt)

PairList(S, i) == S.heap[S.dataPtr[i]].pair_list

ItMap(S, i) == S.heap[S.dataPtr[i]].iterator_list_map

SetPairList(S, i, l) == [S EXCEPT !.heap[S.dataPtr[i]].pair_list = l]

SetItMap(S, i, m) == [S EXCEPT !.heap[S.dataPtr[i]].iterator_list_map = m]

-----------------------------------------------------------------------------
(* copy_guard_t                                                            *)

copy_guard_t(S, i) ==
    [guarded |-> i, guarded_data |-> S.dataPtr[i], guarded_unshareable |-> S.unshareable[i]]

\* Mutant: the guard restores the flag and keeps the storage it finds.
RollbackFlagOnly(S, guard) ==
    [S EXCEPT !.unshareable[guard.guarded] = guard.guarded_unshareable]

\* ~copy_guard_t() with rollback still set.
Rollback(S, guard) ==
    [S EXCEPT !.dataPtr[guard.guarded] = guard.guarded_data,
              !.unshareable[guard.guarded] = guard.guarded_unshareable]

-----------------------------------------------------------------------------
(* aboutToModify: called with the guard alive, which holds one reference.  *)

\* Mutant: the clone is taken only from a third holder on.
ShouldCloneLate(S, i) == use_count(S, S.dataPtr[i], 1) > 3 /\ ~S.unshareable[i]

ShouldClone(S, i) == use_count(S, S.dataPtr[i], 1) > 2 /\ ~S.unshareable[i]

\* Mutant: the flag is set before the sharing check reads it.
aboutToModify_mark_first(S, i, markUnshareable, oom) ==
    LET S0 == [S EXCEPT !.unshareable[i] = markUnshareable]
    IN  IF ShouldClone(S0, i) /\ oom
        THEN [s |-> S, threw |-> TRUE, cloned |-> FALSE]
        ELSE [s |-> IF ShouldClone(S0, i)
                    THEN make_shared(S0, i, container_copy(S.heap[S.dataPtr[i]]))
                    ELSE S0,
              threw |-> FALSE,
              cloned |-> ShouldClone(S0, i)]

\* oom: the allocation of the clone fails.
aboutToModify(S, i, markUnshareable, oom) ==
    IF ShouldClone(S, i) /\ oom
    THEN [s |-> S, threw |-> TRUE, cloned |-> FALSE]
    ELSE LET S1 == IF ShouldClone(S, i)
                   THEN make_shared(S, i, container_copy(S.heap[S.dataPtr[i]]))
                   ELSE S
         IN  [s |-> [S1 EXCEPT !.unshareable[i] = markUnshareable],
              threw |-> FALSE,
              cloned |-> ShouldClone(S, i)]

-----------------------------------------------------------------------------
(* size, empty, count                                                      *)

size(S, i) == IF S.dataPtr[i] = NULL THEN 0 ELSE Len(PairList(S, i))

empty(S, i) == IF S.dataPtr[i] = NULL THEN TRUE ELSE PairList(S, i) = <<>>

count(S, i, k) ==
    IF S.dataPtr[i] = NULL THEN 0
    ELSE IF k \notin DOMAIN ItMap(S, i) THEN 0
    ELSE Len(ItMap(S, i)[k])

-----------------------------------------------------------------------------
(* k_iterator, k_begin, k_end.  An iterator is the map it walks and its    *)
(* position in the map's key order; the iterators of null storage are      *)
(* value-initialised and compare equal.                                    *)

k_iterator(c, p) == [cell |-> c, pos |-> p]

k_begin(S, i) ==
    IF S.dataPtr[i] = NULL THEN k_iterator(NULL, 0)
    ELSE k_iterator(S.dataPtr[i], 1)

k_end(S, i) ==
    IF S.dataPtr[i] = NULL THEN k_iterator(NULL, 0)
    ELSE k_iterator(S.dataPtr[i], Cardinality(DOMAIN ItMap(S, i)) + 1)

\* operator*
k_deref(S, it) == map_key_at(S.heap[it.cell].iterator_list_map, it.pos)

\* operator++
k_next(it) == [it EXCEPT !.pos = @ + 1]

\* for (it = from; it != to; ++it) keys.push_back(*it)
RECURSIVE k_range(_, _, _)
k_range(S, from, to) ==
    IF from = to THEN <<>>
    ELSE <<k_deref(S, from)>> \o k_range(S, k_next(from), to)

\* The keys produced by iterating from k_begin() to k_end().
k_keys(S, i) == k_range(S, k_begin(S, i), k_end(S, i))

-----------------------------------------------------------------------------
(* The calls of size, empty, count, k_begin and k_end: the value returned  *)
(* and the state the call leaves.                                          *)

size_const(S, i) == Result(S, "ok", FALSE, size(S, i), NoTgt)

empty_const(S, i) == Result(S, "ok", FALSE, empty(S, i), NoTgt)

count_const(S, i, k) == Result(S, "ok", FALSE, count(S, i, k), NoTgt)

k_begin_const(S, i) == Result(S, "ok", FALSE, k_begin(S, i), NoTgt)

k_end_const(S, i) == Result(S, "ok", FALSE, k_end(S, i), NoTgt)

-----------------------------------------------------------------------------
(* Structural mutations.  oom / fail name the allocation that throws       *)
(* std::bad_alloc, if the call reaches it.                                 *)

\* Mutant: the catch block rethrows without taking the new entry back.
push_catch_rethrow_only(S, i) == S

\* catch (...) { dataPtr->pair_list.pop_back(); throw; }
push_catch(S, i) == SetPairList(S, i, list_pop_back(PairList(S, i)))

\* fail \in {"none", "cell", "clone", "queue", "bucket"}
push(S, i, k, v, fail) ==
    IF S.dataPtr[i] = NULL /\ fail = "cell" THEN Throw(S, "bad_alloc")
    ELSE
    LET S0 == IF S.dataPtr[i] = NULL THEN make_shared(S, i, EmptyContainer) ELSE S
        guard == copy_guard_t(S0, i)
        atm == aboutToModify(S0, i, FALSE, fail = "clone")
        S1 == atm.s
        found == k \in DOMAIN ItMap(S1, i)
        S2 == SetPairList(S1, i, list_push_back(PairList(S1, i), k, v))
        prev_end == PairList(S2, i)[Len(PairList(S2, i))].id
        S3 == IF ~found
              THEN SetItMap(S2, i, map_insert(ItMap(S2, i), k, <<prev_end>>))
              ELSE SetItMap(S2, i, [ItMap(S2, i) EXCEPT ![k] = Append(@, prev_end)])
    IN  IF atm.threw THEN Throw(Rollback(S1, guard), "bad_alloc")
        ELSE IF fail = "queue" THEN Throw(Rollback(S1, guard), "bad_alloc")
        ELSE IF fail = "bucket"
        THEN Throw(Rollback(push_catch(S2, i), guard), "bad_alloc")
        ELSE Done(S3, atm.cloned)

pop(S, i, oom) ==
    IF empty(S, i) THEN Throw(S, "Empty queue")
    ELSE
    LET guard == copy_guard_t(S, i)
        atm == aboutToModify(S, i, FALSE, oom)
        S1 == atm.s
        k == PairList(S1, i)[1].first
        S2 == SetItMap(S1, i, [ItMap(S1, i) EXCEPT ![k] = Tail(@)])
        S3 == IF ItMap(S2, i)[k] = <<>> THEN SetItMap(S2, i, map_erase(ItMap(S2, i), k)) ELSE S2
        S4 == SetPairList(S3, i, list_pop_front(PairList(S3, i)))
    IN  IF atm.threw THEN Throw(Rollback(S1, guard), "bad_alloc")
        ELSE Done(S4, atm.cloned)

\* Mutant: the empty check throws pop()'s message.
pop_k_empty_queue(S, i, k, oom) ==
    IF empty(S, i) THEN Throw(S, "Empty queue")
    ELSE
    LET guard == copy_guard_t(S, i)
        atm == aboutToModify(S, i, FALSE, oom)
        S1 == atm.s
        S2 == SetPairList(S1, i, list_erase(PairList(S1, i), Head(ItMap(S1, i)[k])))
        S3 == SetItMap(S2, i, [ItMap(S2, i) EXCEPT ![k] = Tail(@)])
        S4 == IF ItMap(S3, i)[k] = <<>> THEN SetItMap(S3, i, map_erase(ItMap(S3, i), k)) ELSE S3
    IN  IF atm.threw THEN Throw(Rollback(S1, guard), "bad_alloc")
        ELSE IF k \notin DOMAIN ItMap(S1, i) THEN Throw(Rollback(S1, guard), "Key not found")
        ELSE Done(S4, atm.cloned)

\* Mutant: the entry erased is the one the bucket's last reference denotes.
pop_k_newest(S, i, k, oom) ==
    IF empty(S, i) THEN Throw(S, "Key not found")
    ELSE
    LET guard == copy_guard_t(S, i)
        atm == aboutToModify(S, i, FALSE, oom)
        S1 == atm.s
        b == ItMap(S1, i)[k]
        S2 == SetPairList(S1, i, list_erase(PairList(S1, i), b[Len(b)]))
        S3 == SetItMap(S2, i, [ItMap(S2, i) EXCEPT ![k] = SubSeq(@, 1, Len(@) - 1)])
        S4 == IF ItMap(S3, i)[k] = <<>> THEN SetItMap(S3, i, map_erase(ItMap(S3, i), k)) ELSE S3
    IN  IF atm.threw THEN Throw(Rollback(S1, guard), "bad_alloc")
        ELSE IF k \notin DOMAIN ItMap(S1, i) THEN Throw(Rollback(S1, guard), "Key not found")
        ELSE Done(S4, atm.cloned)

pop_k(S, i, k, oom) ==
    IF empty(S, i) THEN Throw(S, "Key not found")
    ELSE
    LET guard == copy_guard_t(S, i)
        atm == aboutToModify(S, i, FALSE, oom)
        S1 == atm.s
        S2 == SetPairList(S1, i, list_erase(PairList(S1, i), Head(ItMap(S1, i)[k])))
        S3 == SetItMap(S2, i, [ItMap(S2, i) EXCEPT ![k] = Tail(@)])
        S4 == IF ItMap(S3, i)[k] = <<>> THEN SetItMap(S3, i, map_erase(ItMap(S3, i), k)) ELSE S3
    IN  IF atm.threw THEN Throw(Rollback(S1, guard), "bad_alloc")
        ELSE IF k \notin DOMAIN ItMap(S1, i) THEN Throw(Rollback(S1, guard), "Key not found")
        ELSE Done(S4, atm.cloned)

\* for (it2 = bucket.begin(); it2 != bucket.end(); ++it2) splice(end, *it2)
RECURSIVE SpliceAll(_, _)
SpliceAll(l, its) ==
    IF its = <<>> THEN l
    ELSE SpliceAll(list_splice_end(l, Head(its)), Tail(its))

\* Mutant: only the oldest entry of the key is moved, and its reference
\* goes to the back of the bucket.
move_to_back_oldest(S, i, k, oom) ==
    IF empty(S, i) THEN Throw(S, "Key not found")
    ELSE
    LET guard == copy_guard_t(S, i)
        atm == aboutToModify(S, i, FALSE, oom)
        S1 == atm.s
        b == ItMap(S1, i)[k]
        S2 == SetPairList(S1, i, list_splice_end(PairList(S1, i), Head(b)))
        S3 == SetItMap(S2, i, [ItMap(S2, i) EXCEPT ![k] = Append(Tail(b), Head(b))])
    IN  IF atm.threw THEN Throw(Rollback(S1, guard), "bad_alloc")
        ELSE IF k \notin DOMAIN ItMap(S1, i) THEN Throw(Rollback(S1, guard), "Key not found")
        ELSE Done(S3, atm.cloned)

move_to_back(S, i, k, oom) ==
    IF empty(S, i) THEN Throw(S, "Key not found")
    ELSE
    LET guard == copy_guard_t(S, i)
        atm == aboutToModify(S, i, FALSE, oom)
        S1 == atm.s
        S2 == SetPairList(S1, i, SpliceAll(PairList(S1, i), ItMap(S1, i)[k]))
    IN  IF atm.threw THEN Throw(Rollback(S1, guard), "bad_alloc")
        ELSE IF k \notin DOMAIN ItMap(S1, i) THEN Throw(Rollback(S1, guard), "Key not found")
        ELSE Done(S2, atm.cloned)

\* Mutant: clear() empties the storage it finds without the ownership check.
clear_in_place(S, i, oom) ==
    IF S.dataPtr[i] = NULL THEN Done(S, FALSE)
    ELSE Done(SetItMap(SetPairList([S EXCEPT !.unshareable[i] = FALSE], i, <<>>), i, EmptyMap),
              FALSE)

clear(S, i, oom) ==
    IF S.dataPtr[i] = NULL THEN Done(S, FALSE)
    ELSE
    LET guard == copy_guard_t(S, i)
        atm == aboutToModify(S, i, FALSE, oom)
        S1 == atm.s
        S2 == SetItMap(SetPairList(S1, i, <<>>), i, EmptyMap)
    IN  IF atm.threw THEN Throw(Rollback(S1, guard), "bad_alloc")
        ELSE Done(S2, atm.cloned)

-----------------------------------------------------------------------------
(* Accessors.  The non-const ones return a V& into the instance's storage. *)

Pair(n) == <<n.first, n.second>>

RefTo(S, i, n) == [cell |-> S.dataPtr[i], node |-> n.id]

\* Mutant: the const front() runs the ownership check and pins, as the
\* non-const one does.
front_const_pins(S, i) ==
    IF empty(S, i) THEN Throw(S, "Empty queue")
    ELSE LET atm == aboutToModify(S, i, TRUE, FALSE)
         IN  Result(atm.s, "ok", atm.cloned, Pair(PairList(atm.s, i)[1]), NoTgt)

front_const(S, i) ==
    IF empty(S, i) THEN Throw(S, "Empty queue")
    ELSE Result(S, "ok", FALSE, Pair(PairList(S, i)[1]), NoTgt)

back_const(S, i) ==
    IF empty(S, i) THEN Throw(S, "Empty queue")
    ELSE Result(S, "ok", FALSE, Pair(PairList(S, i)[Len(PairList(S, i))]), NoTgt)

\* Mutant: first(k) reads the bucket's back.
first_const_back(S, i, key) ==
    IF empty(S, i) THEN Throw(S, "Key not found")
    ELSE IF key \notin DOMAIN ItMap(S, i) THEN Throw(S, "Key not found")
    ELSE LET b == ItMap(S, i)[key]
         IN  Result(S, "ok", FALSE, Pair(Deref(PairList(S, i), b[Len(b)])), NoTgt)

first_const(S, i, key) ==
    IF empty(S, i) THEN Throw(S, "Key not found")
    ELSE IF key \notin DOMAIN ItMap(S, i) THEN Throw(S, "Key not found")
    ELSE Result(S, "ok", FALSE, Pair(Deref(PairList(S, i), Head(ItMap(S, i)[key]))), NoTgt)

last_const(S, i, key) ==
    IF empty(S, i) THEN Throw(S, "Key not found")
    ELSE IF key \notin DOMAIN ItMap(S, i) THEN Throw(S, "Key not found")
    ELSE LET b == ItMap(S, i)[key]
         IN  Result(S, "ok", FALSE, Pair(Deref(PairList(S, i), b[Len(b)])), NoTgt)

front(S, i, oom) ==
    IF empty(S, i) THEN Throw(S, "Empty queue")
    ELSE
    LET guard == copy_guard_t(S, i)
        atm == aboutToModify(S, i, TRUE, oom)
        S1 == atm.s
        n == PairList(S1, i)[1]
    IN  IF atm.threw THEN Throw(Rollback(S1, guard), "bad_alloc")
        ELSE Result(S1, "ok", atm.cloned, Pair(n), RefTo(S1, i, n))

back(S, i, oom) ==
    IF empty(S, i) THEN Throw(S, "Empty queue")
    ELSE
    LET guard == copy_guard_t(S, i)
        atm == aboutToModify(S, i, TRUE, oom)
        S1 == atm.s
        n == PairList(S1, i)[Len(PairList(S1, i))]
    IN  IF atm.threw THEN Throw(Rollback(S1, guard), "bad_alloc")
        ELSE Result(S1, "ok", atm.cloned, Pair(n), RefTo(S1, i, n))

first(S, i, key, oom) ==
    IF empty(S, i) THEN Throw(S, "Key not found")
    ELSE
    LET guard == copy_guard_t(S, i)
        atm == aboutToModify(S, i, TRUE, oom)
        S1 == atm.s
        n == Deref(PairList(S1, i), Head(ItMap(S1, i)[key]))
    IN  IF atm.threw THEN Throw(Rollback(S1, guard), "bad_alloc")
        ELSE IF key \notin DOMAIN ItMap(S1, i) THEN Throw(Rollback(S1, guard), "Key not found")
        ELSE Result(S1, "ok", atm.cloned, Pair(n), RefTo(S1, i, n))

last_(S, i, key, oom) ==
    IF empty(S, i) THEN Throw(S, "Key not found")
    ELSE
    LET guard == copy_guard_t(S, i)
        atm == aboutToModify(S, i, TRUE, oom)
        S1 == atm.s
        b == ItMap(S1, i)[key]
        n == Deref(PairList(S1, i), b[Len(b)])
    IN  IF atm.threw THEN Throw(Rollback(S1, guard), "bad_alloc")
        ELSE IF key \notin DOMAIN ItMap(S1, i) THEN Throw(Rollback(S1, guard), "Key not found")
        ELSE Result(S1, "ok", atm.cloned, Pair(n), RefTo(S1, i, n))

-----------------------------------------------------------------------------
(* Construction, destruction, assignment.  Dereferencing a null dataPtr is *)
(* undefined behaviour; the build reads the list head at a null address    *)
(* and the process dies: status "crash".                                   *)

kvfifo_default(S, i) ==
    Done(make_shared([S EXCEPT !.live[i] = TRUE, !.unshareable[i] = FALSE], i, EmptyContainer),
         FALSE)

\* Mutant: the copy shares the storage of a pinned source too.
kvfifo_copy_shares(S, i, other, oom) ==
    Done([S EXCEPT !.live[i] = TRUE, !.unshareable[i] = FALSE,
                   !.dataPtr[i] = S.dataPtr[other]], FALSE)

kvfifo_copy(S, i, other, oom) ==
    LET S0 == [S EXCEPT !.live[i] = TRUE, !.unshareable[i] = FALSE]
    IN  IF ~S.unshareable[other]
        THEN Done([S0 EXCEPT !.dataPtr[i] = S.dataPtr[other]], FALSE)
        ELSE IF S.dataPtr[other] = NULL THEN Throw(S, "crash")
        ELSE IF oom THEN Throw(S, "bad_alloc")
        ELSE Done(make_shared(S0, i, container_copy(S.heap[S.dataPtr[other]])), TRUE)

\* Mutant: the move copies the storage reference and leaves the source its
\* own.
kvfifo_move_keeps(S, i, other) ==
    Done([S EXCEPT !.live[i] = TRUE,
                   !.unshareable[i] = S.unshareable[other],
                   !.dataPtr[i] = S.dataPtr[other]], FALSE)

kvfifo_move(S, i, other) ==
    Done([S EXCEPT !.live[i] = TRUE,
                   !.unshareable[i] = S.unshareable[other],
                   !.dataPtr[other] = NULL,
                   !.dataPtr[i] = S.dataPtr[other]], FALSE)

kvfifo_destroy(S, i) ==
    Done([S EXCEPT !.live[i] = FALSE, !.dataPtr[i] = NULL, !.unshareable[i] = FALSE], FALSE)

\* The body of operator=, lines 35-43; tmp is the by-value parameter.
assign_body(S, i, tmp, c, oom) ==
    IF ~tmp.unshareable
    THEN Done([S EXCEPT !.dataPtr[i] = tmp.dataPtr, !.unshareable[i] = FALSE], FALSE)
    ELSE IF tmp.dataPtr = NULL THEN Throw(S, "crash")
    ELSE IF oom THEN Throw(S, "bad_alloc")
    ELSE Done([S EXCEPT !.heap[c] = container_copy(S.heap[tmp.dataPtr]),
                        !.dataPtr[i] = c,
                        !.unshareable[i] = FALSE], TRUE)

\* x = y: the parameter is copy-constructed from y.
assign_copy(S, i, other, oom) ==
    LET c == NewCell(S)
    IN  IF ~S.unshareable[other]
        THEN assign_body(S, i, [dataPtr |-> S.dataPtr[other], unshareable |-> FALSE], c, FALSE)
        ELSE IF S.dataPtr[other] = NULL THEN Throw(S, "crash")
        ELSE IF oom THEN Throw(S, "bad_alloc")
        ELSE LET S0 == [S EXCEPT !.heap[c] = container_copy(S.heap[S.dataPtr[other]])]
                 r == assign_body(S0, i, [dataPtr |-> c, unshareable |-> FALSE], c, FALSE)
             IN  Result(r.s, r.status, TRUE, <<>>, NoTgt)

\* x = std::move(y): the parameter is move-constructed from y.
assign_move(S, i, other, oom) ==
    assign_body([S EXCEPT !.dataPtr[other] = NULL], i,
                [dataPtr |-> S.dataPtr[other], unshareable |-> S.unshareable[other]],
                NewCell(S), oom)

-----------------------------------------------------------------------------
(* The state between calls.  Cells no instance holds are released (the     *)
(* last shared_ptr is gone).  Addresses carry no meaning beyond identity,  *)
(* so a state is stored with its cells numbered by their first holder and  *)
(* its list nodes numbered by their position in pair_list; iterators and   *)
(* the outstanding reference are renamed along.  An iterator whose node is *)
(* not in the list is stored as 0.                                         *)

Holders(S, c) == {j \in Inst : S.live[j] /\ S.dataPtr[j] = c}

MinHolder(S, c) == CHOOSE j \in Holders(S, c) : \A m \in Holders(S, c) : j <= m

Rank(S, c) == Cardinality({d \in Used(S) : MinHolder(S, d) < MinHolder(S, c)}) + 1

CellAt(S, r) == CHOOSE c \in Used(S) : Rank(S, c) = r

Pos(l, it) ==
    IF it \in ListIds(l) THEN CHOOSE p \in 1..Len(l) : l[p].id = it ELSE 0

RECURSIVE Renumber(_, _)
Renumber(l, p) ==
    IF l = <<>> THEN <<>>
    ELSE <<[Head(l) EXCEPT !.id = p]>> \o Renumber(Tail(l), p + 1)

RECURSIVE RenameIts(_, _)
RenameIts(its, l) ==
    IF its = <<>> THEN <<>>
    ELSE <<Pos(l, Head(its))>> \o RenameIts(Tail(its), l)

CanonContainer(c) ==
    [pair_list |-> Renumber(c.pair_list, 1),
     iterator_list_map |->
        [k \in DOMAIN c.iterator_list_map |-> RenameIts(c.iterator_list_map[k], c.pair_list)]]

CanonHeap(S) ==
    [r \in Cell |->
        IF r <= Cardinality(Used(S)) THEN CanonContainer(S.heap[CellAt(S, r)])
        ELSE EmptyContainer]

CanonPtr(S) ==
    [j \in Inst |-> IF S.live[j] /\ S.dataPtr[j] # NULL THEN Rank(S, S.dataPtr[j]) ELSE NULL]

NoRef == [st |-> "none", inst |-> 0, cell |-> NULL, node |-> 0, given |-> FALSE]

\* The reference lives as long as the node it refers to.
CanonRef(S, r) ==
    IF r.st = "valid" /\ r.cell \in Used(S) /\ r.node \in ListIds(S.heap[r.cell].pair_list)
    THEN [r EXCEPT !.cell = Rank(S, r.cell), !.node = Pos(S.heap[r.cell].pair_list, r.node)]
    ELSE NoRef

RECURSIVE SumLen(_, _)
SumLen(S, cs) ==
    IF cs = {} THEN 0
    ELSE LET c == CHOOSE x \in cs : TRUE
         IN  Len(S.heap[c].pair_list) + SumLen(S, cs \ {c})

TotalNodes(S) == SumLen(S, Used(S))

\* The list nodes the heap has room for; one less where the caller's kept
\* reference is part of the state.
Budget == IF keep THEN MaxNodes - 1 ELSE MaxNodes

CommitState(R, r) ==
    /\ ~crashed
    /\ TotalNodes(R.s) <= Budget
    /\ crashed' = (R.status = "crash")
    /\ live' = R.s.live
    /\ dataPtr' = CanonPtr(R.s)
    /\ unshareable' = [j \in Inst |-> R.s.live[j] /\ R.s.unshareable[j]]
    /\ heap' = CanonHeap(R.s)
    /\ ref' = CanonRef(R.s, r)
    /\ keep' = keep

\* A call of a caller that runs no fill-and-drain test.
Commit(R, r) == CommitState(R, r) /\ fifo' = fifo

\* The reference after a structural mutation of instance i: structural
\* mutation invalidates the references handed out before it, and the caller
\* drops the one it holds.
RefMutated(i, R) ==
    IF R.status = "ok" /\ ref.st = "valid" /\ ref.inst = i
    THEN NoRef ELSE ref

\* The reference after instance i was destroyed, assigned to or moved from.
RefGiven(i, R) ==
    IF R.status = "ok" /\ ref.st = "valid" /\ ref.inst = i
    THEN [ref EXCEPT !.given = TRUE] ELSE ref

\* The reference after a non-const accessor of instance i: a caller that
\* keeps references keeps the one returned last.
RefTaken(i, R) ==
    IF R.status = "ok" /\ keep
    THEN [st |-> "valid", inst |-> i, cell |-> R.tgt.cell, node |-> R.tgt.node,
          given |-> FALSE]
    ELSE ref

\* The allocations of a call that can fail in the current state.
Ooms(i) == IF dataPtr[i] # NULL /\ ShouldClone(Cur, i) THEN BOOLEAN ELSE {FALSE}

Fails(i) ==
    {"none", "queue", "bucket"}
        \cup (IF dataPtr[i] = NULL THEN {"cell"} ELSE {})
        \cup (IF dataPtr[i] # NULL /\ ShouldClone(Cur, i) THEN {"clone"} ELSE {})

CopyOoms(j) == IF unshareable[j] /\ dataPtr[j] # NULL THEN BOOLEAN ELSE {FALSE}

-----------------------------------------------------------------------------
(* Actions: one per public call.                                           *)

\* One default-constructed instance; the other slots hold no object yet.
InitObjects ==
    /\ live = [j \in Inst |-> j = 1]
    /\ dataPtr = [j \in Inst |-> IF j = 1 THEN 1 ELSE NULL]
    /\ unshareable = [j \in Inst |-> FALSE]
    /\ heap = [c \in Cell |-> EmptyContainer]
    /\ ref = NoRef
    /\ crashed = FALSE

\* The log of a fill-and-drain test: the pairs pushed, what back() returned
\* before draining, the pairs front() returned before each pop().
Log(phase) == [phase |-> phase, pushed |-> <<>>, back |-> <<>>, popped |-> <<>>]

\* The caller uses the pairs the accessors return and keeps no reference.
Init == InitObjects /\ keep = FALSE /\ fifo = Log("off")

\* The caller keeps the reference a non-const accessor returns, and may
\* write through it later.
InitRef == InitObjects /\ keep = TRUE /\ fifo = Log("off")

\* The caller fills instance 1 by push alone, then drains it.
InitFifo == InitObjects /\ keep = FALSE /\ fifo = Log("fill")

DefaultCtor ==
    \E i \in Inst :
        /\ ~live[i]
        /\ LET R == kvfifo_default(Cur, i)
           IN  Commit(R, ref)

CopyCtor ==
    \E i \in Inst, j \in Inst : \E oom \in CopyOoms(j) :
        /\ ~live[i] /\ live[j]
        /\ LET R == kvfifo_copy(Cur, i, j, oom)
           IN  Commit(R, ref)

MoveCtor ==
    \E i \in Inst, j \in Inst :
        /\ ~live[i] /\ live[j]
        /\ LET R == kvfifo_move(Cur, i, j)
           IN  Commit(R, RefGiven(j, R))

Dtor ==
    \E i \in Inst :
        /\ live[i]
        /\ LET R == kvfifo_destroy(Cur, i)
           IN  Commit(R, RefGiven(i, R))

CopyAssign ==
    \E i \in Inst, j \in Inst : \E oom \in CopyOoms(j) :
        /\ live[i] /\ live[j]
        /\ LET R == assign_copy(Cur, i, j, oom)
           IN  Commit(R, RefGiven(i, R))

MoveAssign ==
    \E i \in Inst, j \in Inst : \E oom \in CopyOoms(j) :
        /\ live[i] /\ live[j]
        /\ LET R == assign_move(Cur, i, j, oom)
               r1 == RefGiven(i, R)
           IN  Commit(R,
                      IF r1.st = "valid" /\ r1.inst = j THEN [r1 EXCEPT !.given = TRUE] ELSE r1)

Push ==
    \E i \in Inst, k \in Key, v \in Val : \E fail \in Fails(i) :
        /\ live[i]
        /\ LET R == push(Cur, i, k, v, fail)
           IN  Commit(R, RefMutated(i, R))

Pop ==
    \E i \in Inst : \E oom \in Ooms(i) :
        /\ live[i]
        /\ LET R == pop(Cur, i, oom)
           IN  Commit(R, RefMutated(i, R))

PopKey ==
    \E i \in Inst, k \in Key : \E oom \in Ooms(i) :
        /\ live[i]
        /\ LET R == pop_k(Cur, i, k, oom)
           IN  Commit(R, RefMutated(i, R))

MoveToBack ==
    \E i \in Inst, k \in Key : \E oom \in Ooms(i) :
        /\ live[i]
        /\ LET R == move_to_back(Cur, i, k, oom)
           IN  Commit(R, RefMutated(i, R))

Clear ==
    \E i \in Inst : \E oom \in Ooms(i) :
        /\ live[i]
        /\ LET R == clear(Cur, i, oom)
           IN  Commit(R, RefMutated(i, R))

Front ==
    \E i \in Inst : \E oom \in Ooms(i) :
        /\ live[i]
        /\ LET R == front(Cur, i, oom)
           IN  Commit(R, RefTaken(i, R))

Back ==
    \E i \in Inst : \E oom \in Ooms(i) :
        /\ live[i]
        /\ LET R == back(Cur, i, oom)
           IN  Commit(R, RefTaken(i, R))

First ==
    \E i \in Inst, k \in Key : \E oom \in Ooms(i) :
        /\ live[i]
        /\ LET R == first(Cur, i, k, oom)
           IN  Commit(R, RefTaken(i, R))

Last ==
    \E i \in Inst, k \in Key : \E oom \in Ooms(i) :
        /\ live[i]
        /\ LET R == last_(Cur, i, k, oom)
           IN  Commit(R, RefTaken(i, R))

\* r.second = v, through the reference ref.
write_ref(S, r, v) ==
    LET l == S.heap[r.cell].pair_list
        p == CHOOSE q \in 1..Len(l) : l[q].id = r.node
    IN  [S EXCEPT !.heap[r.cell].pair_list[p].second = v]

\* The caller assigns v through the reference it holds.
WriteRef ==
    \E v \in Val :
        /\ ref.st = "valid"
        /\ Commit(Done(write_ref(Cur, ref, v), FALSE), ref)

\* The fill-and-drain test on instance 1.
FifoPush ==
    \E k \in Key, v \in Val :
        /\ fifo.phase = "fill"
        /\ CommitState(push(Cur, 1, k, v, "none"), ref)
        /\ fifo' = [fifo EXCEPT !.pushed = Append(@, <<k, v>>)]

FifoBack ==
    /\ fifo.phase = "fill"
    /\ ~empty(Cur, 1)
    /\ LET R == back_const(Cur, 1)
       IN  /\ CommitState(R, ref)
           /\ fifo' = [fifo EXCEPT !.phase = "drain", !.back = R.ret]

FifoFrontPop ==
    /\ fifo.phase = "drain"
    /\ ~empty(Cur, 1)
    /\ LET F == front_const(Cur, 1)
       IN  /\ CommitState(pop(F.s, 1, FALSE), ref)
           /\ fifo' = [fifo EXCEPT !.popped = Append(@, F.ret)]

\* The read-only calls.
Size == \E i \in {j \in Inst : live[j]} : Commit(size_const(Cur, i), ref)

Empty == \E i \in {j \in Inst : live[j]} : Commit(empty_const(Cur, i), ref)

Count == \E i \in {j \in Inst : live[j]}, k \in Key : Commit(count_const(Cur, i, k), ref)

FrontConst == \E i \in {j \in Inst : live[j]} : Commit(front_const(Cur, i), ref)

BackConst == \E i \in {j \in Inst : live[j]} : Commit(back_const(Cur, i), ref)

FirstConst == \E i \in {j \in Inst : live[j]}, k \in Key : Commit(first_const(Cur, i, k), ref)

LastConst == \E i \in {j \in Inst : live[j]}, k \in Key : Commit(last_const(Cur, i, k), ref)

KBegin == \E i \in {j \in Inst : live[j]} : Commit(k_begin_const(Cur, i), ref)

KEnd == \E i \in {j \in Inst : live[j]} : Commit(k_end_const(Cur, i), ref)

Reads ==
    \/ Size \/ Empty \/ Count
    \/ FrontConst \/ BackConst \/ FirstConst \/ LastConst
    \/ KBegin \/ KEnd

Calls ==
    \/ DefaultCtor \/ CopyCtor \/ MoveCtor \/ Dtor \/ CopyAssign \/ MoveAssign
    \/ Push \/ Pop \/ PopKey \/ MoveToBack \/ Clear
    \/ Front \/ Back \/ First \/ Last

Next == Calls

Spec == Init /\ [][Next]_vars

NextRef == Calls \/ WriteRef

SpecRef == InitRef /\ [][NextRef]_vars

\* The caller makes the read-only calls too.
NextRead == Calls \/ Reads

SpecRead == Init /\ [][NextRead]_vars

NextFifo == FifoPush \/ FifoBack \/ FifoFrontPop

SpecFifo == InitFifo /\ [][NextFifo]_vars

-----------------------------------------------------------------------------
(* What a caller can observe of an instance.                               *)

RECURSIVE Pairs(_)
Pairs(l) == IF l = <<>> THEN <<>> ELSE <<Pair(Head(l))>> \o Pairs(Tail(l))

\* The ordered (key, value) sequence of instance i.
Contents(S, i) == IF S.dataPtr[i] = NULL THEN <<>> ELSE Pairs(PairList(S, i))

Obs(S, i) ==
    [size |-> size(S, i),
     count |-> [k \in Key |-> count(S, i, k)],
     entries |-> Contents(S, i)]

Others(i) == {j \in Inst : live[j] /\ j # i}

\* The positions of the entries with key k in a sequence of pairs.
KeyPos(c, k) == {p \in 1..Len(c) : c[p][1] = k}

MinOf(ps) == CHOOSE p \in ps : \A q \in ps : p <= q

MaxOf(ps) == CHOOSE p \in ps : \A q \in ps : p >= q

RemoveAt(c, p) == SubSeq(c, 1, p - 1) \o SubSeq(c, p + 1, Len(c))

\* P holds of the result of every structural mutation instance i can be
\* asked for in the current state, failing allocations included.
AllMutations(i, P(_)) ==
    /\ \A k \in Key, v \in Val : \A f \in Fails(i) : P(push(Cur, i, k, v, f))
    /\ \A o \in Ooms(i) : P(pop(Cur, i, o)) /\ P(clear(Cur, i, o))
    /\ \A k \in Key : \A o \in Ooms(i) :
        P(pop_k(Cur, i, k, o)) /\ P(move_to_back(Cur, i, k, o))

\* P holds of the result of every non-const accessor call on instance i.
AllAccesses(i, P(_)) ==
    /\ \A o \in Ooms(i) : P(front(Cur, i, o)) /\ P(back(Cur, i, o))
    /\ \A k \in Key : \A o \in Ooms(i) : P(first(Cur, i, k, o)) /\ P(last_(Cur, i, k, o))

SameObs(S, js) == \A j \in js : Obs(S, j) = Obs(Cur, j)

Live == {j \in Inst : live[j]}

-----------------------------------------------------------------------------
\* C1: in every storage cell, every queue entry is referenced exactly once,
\* in the bucket of its own key and in no other; every bucket reference
\* denotes an entry that is in the queue, no two the same; count(k) is the
\* number of queue entries with key k; and the references in a bucket are in
\* the order their entries have in the queue.
CellWellFormed(c) ==
    LET l == c.pair_list
        m == c.iterator_list_map
        Refs(k, id) == {q \in 1..Len(m[k]) : m[k][q] = id}
    IN  /\ \A p \in 1..Len(l) :
            /\ l[p].first \in DOMAIN m
            /\ \A k \in DOMAIN m :
                Cardinality(Refs(k, l[p].id)) = (IF k = l[p].first THEN 1 ELSE 0)
        /\ \A k \in DOMAIN m : \A q \in 1..Len(m[k]) :
            /\ m[k][q] \in ListIds(l)
            /\ \A q2 \in 1..Len(m[k]) : q < q2 =>
                /\ m[k][q] # m[k][q2]
                /\ Pos(l, m[k][q]) < Pos(l, m[k][q2])
        /\ \A k \in Key :
            (IF k \in DOMAIN m THEN Len(m[k]) ELSE 0)
                = Cardinality({p \in 1..Len(l) : l[p].first = k})

C1_IndexMatchesQueue ==
    /\ \A c \in Used(Cur) : CellWellFormed(heap[c])
    /\ \A i \in Inst : \A k \in Key :
        live[i] => count(Cur, i, k) = Cardinality(KeyPos(Contents(Cur, i), k))

\* A cell two instances share after one of them took a clone: its bucket of
\* key 1 holds two references with an entry of another key between them.
C1_Witness ==
    \E i \in Inst : \E j \in Others(i) :
        /\ live[i]
        /\ dataPtr[i] # NULL /\ dataPtr[j] # NULL /\ dataPtr[i] # dataPtr[j]
        /\ Len(PairList(Cur, j)) >= 1
        /\ Len(PairList(Cur, i)) = 3
        /\ count(Cur, i, 1) = 2
        /\ PairList(Cur, i)[2].first = 2

-----------------------------------------------------------------------------
\* C2: a structural mutation of one instance (push, pop, pop(k),
\* move_to_back, clear), whether it succeeds or fails, leaves the size, the
\* count of every key and the ordered entries of every other instance as
\* they were, however the instances came to share storage.
C2_Independent(i, R) == SameObs(R.s, Others(i))

C2_CopyIndependence ==
    \A i \in Live : AllMutations(i, LAMBDA R : C2_Independent(i, R))

\* Two instances share a cell of two entries and one of them moves a key to
\* the back: it takes a clone and its own order changes.
C2_Witness ==
    \E i \in Live : \E j \in Others(i) : \E k \in Key :
        /\ dataPtr[i] # NULL /\ dataPtr[i] = dataPtr[j]
        /\ LET R == move_to_back(Cur, i, k, FALSE)
           IN  /\ R.status = "ok" /\ R.cloned
               /\ Contents(R.s, i) # Contents(Cur, i)
               /\ TotalNodes(R.s) <= MaxNodes

-----------------------------------------------------------------------------
\* C3 as claimed: while the caller holds a reference a non-const accessor
\* of X returned, and X has had no structural mutation since (a structural
\* mutation makes the caller drop the reference), a write through the
\* reference changes no entry of any instance other than X.
C3_AsClaimed ==
    ref.st = "valid" =>
        \A v \in Val : SameObs(write_ref(Cur, ref, v), Others(ref.inst))

\* C3: the same, for an X that has not been moved from since the accessor
\* call (X destroyed or assigned to leaves no reference to write through):
\* X still holds the referenced cell, pinned and alone, and the write
\* changes no entry of any other instance, whether it was copied from X
\* before the accessor call or after it.
C3_PinnedWriteIsPrivate ==
    (ref.st = "valid" /\ ~ref.given) =>
        /\ live[ref.inst]
        /\ dataPtr[ref.inst] = ref.cell
        /\ unshareable[ref.inst]
        /\ use_count(Cur, ref.cell, 0) = 1
        /\ \A v \in Val : SameObs(write_ref(Cur, ref, v), Others(ref.inst))

\* X holds a reference to an entry; another instance holds equal entries in
\* a cell of its own; a write through the reference changes X's entries.
C3_Witness ==
    /\ ref.st = "valid" /\ ~ref.given
    /\ \E j \in Others(ref.inst) :
        /\ dataPtr[j] # NULL /\ dataPtr[j] # ref.cell
        /\ Contents(Cur, j) = Contents(Cur, ref.inst)
        /\ size(Cur, j) >= 1
        /\ \E v \in Val :
            Contents(write_ref(Cur, ref, v), ref.inst) # Contents(Cur, ref.inst)

-----------------------------------------------------------------------------
\* C4: when an allocation fails in push (the cell for null storage, the
\* clone, the queue node, the bucket) or in the clone another guarded call
\* takes, the call ends with bad_alloc and every instance, the called one
\* included, has the size, counts and ordered entries it had before.
C4_Atomic(R) == R.status = "bad_alloc" => SameObs(R.s, Live)

C4_ExceptionAtomicity ==
    \A i \in Live :
        /\ AllMutations(i, C4_Atomic)
        /\ AllAccesses(i, C4_Atomic)
        /\ \A k \in Key, v \in Val : \A f \in Fails(i) \ {"none"} :
            push(Cur, i, k, v, f).status = "bad_alloc"
        /\ \A o \in Ooms(i) \ {FALSE} :
            /\ clear(Cur, i, o).status = "bad_alloc"
            /\ ~empty(Cur, i) =>
                /\ pop(Cur, i, o).status = "bad_alloc"
                /\ front(Cur, i, o).status = "bad_alloc"
                /\ back(Cur, i, o).status = "bad_alloc"
                /\ \A k \in Key :
                    /\ pop_k(Cur, i, k, o).status = "bad_alloc"
                    /\ move_to_back(Cur, i, k, o).status = "bad_alloc"
                    /\ first(Cur, i, k, o).status = "bad_alloc"
                    /\ last_(Cur, i, k, o).status = "bad_alloc"

\* An instance that shares two entries with another one: a push on it can
\* fail in the clone, in the queue and in the bucket; and an instance with
\* null storage, whose push can fail in the allocation of the cell.
C4_Witness ==
    \E i \in Live : \E j \in Others(i) :
        /\ dataPtr[i] # NULL /\ dataPtr[i] = dataPtr[j] /\ size(Cur, i) = 2
        /\ push(Cur, i, 1, 1, "clone").status = "bad_alloc"
        /\ push(Cur, i, 1, 1, "bucket").status = "bad_alloc"

-----------------------------------------------------------------------------
\* C5: on an instance whose queue is empty (null storage included), front,
\* back and pop fail with "Empty queue", and pop(k), move_to_back(k),
\* first(k) and last(k) fail with "Key not found" for every key; the failed
\* call changes nothing: storage reference, pinned flag and cells are as
\* before.
C5_Fails(R, what) == R.status = what /\ R.s = Cur

C5_EmptyErrors ==
    \A i \in Live : empty(Cur, i) =>
        /\ C5_Fails(front_const(Cur, i), "Empty queue")
        /\ C5_Fails(back_const(Cur, i), "Empty queue")
        /\ \A o \in BOOLEAN :
            /\ C5_Fails(front(Cur, i, o), "Empty queue")
            /\ C5_Fails(back(Cur, i, o), "Empty queue")
            /\ C5_Fails(pop(Cur, i, o), "Empty queue")
        /\ \A k \in Key :
            /\ C5_Fails(first_const(Cur, i, k), "Key not found")
            /\ C5_Fails(last_const(Cur, i, k), "Key not found")
            /\ \A o \in BOOLEAN :
                /\ C5_Fails(pop_k(Cur, i, k, o), "Key not found")
                /\ C5_Fails(move_to_back(Cur, i, k, o), "Key not found")
                /\ C5_Fails(first(Cur, i, k, o), "Key not found")
                /\ C5_Fails(last_(Cur, i, k, o), "Key not found")

\* A moved-from instance with null storage and the pinned flag set, beside
\* an instance that was emptied and still holds its cell; pop fails on both.
C5_Witness ==
    \E i \in Live : \E j \in Others(i) :
        /\ dataPtr[i] = NULL /\ unshareable[i]
        /\ dataPtr[j] # NULL /\ empty(Cur, j)
        /\ pop(Cur, i, FALSE).status = "Empty queue"
        /\ pop(Cur, j, FALSE).status = "Empty queue"

-----------------------------------------------------------------------------
\* C6: on a non-empty instance, pop(k), move_to_back(k) and non-const
\* first(k) and last(k) with a key that has no entry fail with "Key not
\* found" and leave every instance with the storage reference and the
\* pinned flag it had, and every cell in use with its entries; a clone taken
\* during the call is dropped.
C6_NoOp(R) ==
    /\ R.status = "Key not found"
    /\ R.s.live = live
    /\ R.s.dataPtr = dataPtr
    /\ R.s.unshareable = unshareable
    /\ \A c \in Used(Cur) : R.s.heap[c] = heap[c]

C6_KeyAbsentNoOp ==
    \A i \in Live : \A k \in Key :
        (~empty(Cur, i) /\ count(Cur, i, k) = 0) =>
            /\ C6_NoOp(pop_k(Cur, i, k, FALSE))
            /\ C6_NoOp(move_to_back(Cur, i, k, FALSE))
            /\ C6_NoOp(first(Cur, i, k, FALSE))
            /\ C6_NoOp(last_(Cur, i, k, FALSE))

\* An instance that shares its non-empty cell with another one and is asked
\* for a key it does not hold: aboutToModify clones before the lookup fails.
C6_Witness ==
    \E i \in Live : \E j \in Others(i) : \E k \in Key :
        /\ dataPtr[i] # NULL /\ dataPtr[i] = dataPtr[j]
        /\ ~empty(Cur, i) /\ count(Cur, i, k) = 0
        /\ ShouldClone(Cur, i)
        /\ pop_k(Cur, i, k, FALSE).status = "Key not found"

-----------------------------------------------------------------------------
\* C7: after any sequence of push calls on an initially empty instance,
\* back() returns the pair pushed last, front() followed by pop(), repeated
\* until empty() holds, returns the pushed pairs in the order they were
\* pushed, and the queue is empty after as many pops as pairs were pushed.
C7_FifoOrder ==
    fifo.phase = "drain" =>
        /\ fifo.back = fifo.pushed[Len(fifo.pushed)]
        /\ fifo.popped \o Contents(Cur, 1) = fifo.pushed
        /\ size(Cur, 1) = Len(fifo.pushed) - Len(fifo.popped)
        /\ empty(Cur, 1) <=> (Len(fifo.popped) = Len(fifo.pushed))
        /\ empty(Cur, 1) => fifo.popped = fifo.pushed

\* Three pairs, a key twice among them, pushed and drained to the end.
C7_Witness ==
    /\ fifo.phase = "drain"
    /\ empty(Cur, 1)
    /\ fifo.popped = <<<<1, 1>>, <<2, 1>>, <<1, 2>>>>

-----------------------------------------------------------------------------
\* C8: for every key k with count(k) > 0, first(k) returns the entry with
\* key k nearest the front of the queue and last(k) the one nearest the
\* back, in the const and in the non-const variant.
C8_Returns(R, e) == R.status = "ok" /\ R.ret = e

C8_PerKeyLookup ==
    \A i \in Live : \A k \in Key :
        count(Cur, i, k) > 0 =>
            LET c == Contents(Cur, i)
                oldest == c[MinOf(KeyPos(c, k))]
                newest == c[MaxOf(KeyPos(c, k))]
            IN  /\ C8_Returns(first_const(Cur, i, k), oldest)
                /\ C8_Returns(last_const(Cur, i, k), newest)
                /\ C8_Returns(first(Cur, i, k, FALSE), oldest)
                /\ C8_Returns(last_(Cur, i, k, FALSE), newest)

\* A queue with two entries of key 1 that differ in value, neither at the
\* front nor next to each other after a move: first(1) and last(1) differ.
C8_Witness ==
    \E i \in Live :
        /\ size(Cur, i) = 3 /\ count(Cur, i, 1) = 2
        /\ Contents(Cur, i)[1][1] = 2
        /\ first_const(Cur, i, 1).ret # last_const(Cur, i, 1).ret
        /\ first(Cur, i, 1, FALSE).ret = Contents(Cur, i)[2]

-----------------------------------------------------------------------------
\* C9: pop(k) with count(k) > 0 removes exactly the entry with key k nearest
\* the front, keeps every other entry and their order, lowers count(k) by
\* one and no other count, and erases k from the key index exactly when
\* that was its last entry.
C9_PopKeyRemovesOldest ==
    \A i \in Live : \A k \in Key :
        count(Cur, i, k) > 0 =>
            LET c == Contents(Cur, i)
                R == pop_k(Cur, i, k, FALSE)
            IN  /\ R.status = "ok"
                /\ Contents(R.s, i) = RemoveAt(c, MinOf(KeyPos(c, k)))
                /\ size(R.s, i) = size(Cur, i) - 1
                /\ count(R.s, i, k) = count(Cur, i, k) - 1
                /\ \A k2 \in Key \ {k} : count(R.s, i, k2) = count(Cur, i, k2)
                /\ (k \in DOMAIN ItMap(R.s, i)) <=> (count(Cur, i, k) > 1)

\* pop(k) takes an entry from the middle of a queue that holds the key
\* twice, and the key stays in the index.
C9_Witness ==
    \E i \in Live : \E k \in Key :
        /\ size(Cur, i) = 3 /\ count(Cur, i, k) = 2
        /\ Contents(Cur, i)[1][1] # k
        /\ Contents(Cur, i)[2] # Contents(Cur, i)[3]
        /\ LET R == pop_k(Cur, i, k, FALSE)
           IN  /\ R.status = "ok"
               /\ Contents(R.s, i) = <<Contents(Cur, i)[1], Contents(Cur, i)[3]>>
               /\ k \in DOMAIN ItMap(R.s, i)

-----------------------------------------------------------------------------
\* C10: move_to_back(k) with count(k) > 0 leaves the entries with another
\* key in their order, followed by the entries with key k in their order;
\* size and every count are unchanged.
C10_MoveToBackOrder ==
    \A i \in Live : \A k \in Key :
        count(Cur, i, k) > 0 =>
            LET c == Contents(Cur, i)
                R == move_to_back(Cur, i, k, FALSE)
            IN  /\ R.status = "ok"
                /\ Contents(R.s, i)
                     = SelectSeq(c, LAMBDA e : e[1] # k) \o SelectSeq(c, LAMBDA e : e[1] = k)
                /\ size(R.s, i) = size(Cur, i)
                /\ \A k2 \in Key : count(R.s, i, k2) = count(Cur, i, k2)

\* (a,1),(b,2),(a,2) becomes (b,2),(a,1),(a,2).
C10_Witness ==
    \E i \in Live :
        /\ Contents(Cur, i) = <<<<1, 1>>, <<2, 2>>, <<1, 2>>>>
        /\ LET R == move_to_back(Cur, i, 1, FALSE)
           IN  R.status = "ok" /\ Contents(R.s, i) = <<<<2, 2>>, <<1, 1>>, <<1, 2>>>>

-----------------------------------------------------------------------------
\* C11: in every reachable state, iterating an instance from k_begin() to
\* k_end() produces keys in strictly ascending order, none twice, and the
\* keys produced are exactly the keys k with count(k) > 0; in every cell a
\* key is in the index exactly when a queue entry has that key, and no
\* bucket is empty.
C11_KeyIteration ==
    /\ \A i \in Live :
        LET ks == k_keys(Cur, i)
        IN  /\ \A p \in 1..Len(ks) : \A q \in 1..Len(ks) : p < q => ks[p] < ks[q]
            /\ {ks[p] : p \in 1..Len(ks)} = {k \in Key : count(Cur, i, k) > 0}
    /\ \A c \in Used(Cur) :
        LET m == heap[c].iterator_list_map
            l == heap[c].pair_list
        IN  /\ \A k \in Key : (k \in DOMAIN m) <=> (\E p \in 1..Len(l) : l[p].first = k)
            /\ \A k \in DOMAIN m : m[k] # <<>>

\* A queue that got key 2 before key 1: iteration produces 1, then 2;
\* beside it an instance with null storage, whose iteration produces
\* nothing.
C11_Witness ==
    \E i \in Live : \E j \in Others(i) :
        /\ size(Cur, i) >= 2
        /\ Contents(Cur, i)[1][1] = 2 /\ Contents(Cur, i)[2][1] = 1
        /\ k_keys(Cur, i) = <<1, 2>>
        /\ dataPtr[j] = NULL /\ k_keys(Cur, j) = <<>>

-----------------------------------------------------------------------------
\* What C12 says of an instance after clear() and of the other instances.
C12_Cleared(i, R) ==
    /\ size(R.s, i) = 0
    /\ empty(R.s, i)
    /\ \A k \in Key : count(R.s, i, k) = 0
    /\ k_keys(R.s, i) = <<>>
    /\ dataPtr[i] = NULL => R.s = Cur
    /\ empty(Cur, i) => SameObs(R.s, {i})
    /\ SameObs(R.s, Others(i))

\* C12 as claimed: clear() succeeds in every state and under every outcome
\* of the allocations it makes; afterwards the instance is empty, an
\* instance that was empty or had null storage is as before, and the other
\* instances keep their entries.
C12_AsClaimed ==
    \A i \in Live : \A o \in Ooms(i) :
        LET R == clear(Cur, i, o)
        IN  R.status = "ok" /\ C12_Cleared(i, R)

\* C12: clear() fails, with bad_alloc, exactly when the instance shares its
\* storage unpinned and the allocation of the clone fails, and then nothing
\* has changed; otherwise it succeeds and afterwards size() is 0, empty()
\* holds, count(k) is 0 for every key and key iteration produces nothing;
\* with null storage it changes nothing, with empty storage it changes no
\* entry; the instances that shared the storage keep all their entries.
C12_Clear ==
    \A i \in Live : \A o \in BOOLEAN :
        LET R == clear(Cur, i, o)
            fails == o /\ dataPtr[i] # NULL /\ ShouldClone(Cur, i)
        IN  IF fails
            THEN R.status = "bad_alloc" /\ R.s = Cur
            ELSE R.status = "ok" /\ C12_Cleared(i, R)

\* An instance that shares a non-empty cell with another one: its clear()
\* takes a clone, fails if the clone cannot be allocated, and otherwise
\* leaves the other instance its entries.
C12_Witness ==
    \E i \in Live : \E j \in Others(i) :
        /\ dataPtr[i] # NULL /\ dataPtr[i] = dataPtr[j] /\ size(Cur, i) >= 2
        /\ clear(Cur, i, TRUE).status = "bad_alloc"
        /\ LET R == clear(Cur, i, FALSE)
           IN  /\ R.status = "ok" /\ R.cloned
               /\ size(R.s, i) = 0 /\ size(R.s, j) = size(Cur, j)

-----------------------------------------------------------------------------
\* C13 (I4): in every state a public call leaves, whether it returned or
\* threw, an instance that has its pinned flag set and non-null storage is
\* the only live instance that points at its storage cell.
C13_PinnedIsPrivate ==
    \A i \in Live :
        (unshareable[i] /\ dataPtr[i] # NULL) => use_count(Cur, dataPtr[i], 0) = 1

\* A pinned instance with entries beside a copy taken of it while it was
\* pinned: equal entries, in a cell of its own.
C13_Witness ==
    \E i \in Live : \E j \in Others(i) :
        /\ unshareable[i] /\ dataPtr[i] # NULL /\ size(Cur, i) >= 1
        /\ ~unshareable[j] /\ dataPtr[j] # NULL /\ dataPtr[j] # dataPtr[i]
        /\ Contents(Cur, j) = Contents(Cur, i)

-----------------------------------------------------------------------------
\* What C14 says of the result R of copying source j into instance i.
C14_Copied(i, j, R) ==
    /\ R.status = "ok"
    /\ IF ~unshareable[j]
       THEN R.s.dataPtr[i] = dataPtr[j] /\ ~R.cloned
       ELSE /\ R.s.dataPtr[i] # NULL
            /\ R.s.dataPtr[i] \notin Used(Cur)
            /\ use_count(R.s, R.s.dataPtr[i], 0) = 1
            /\ Contents(R.s, i) = Contents(Cur, j)
    /\ R.s.live[i] /\ ~R.s.unshareable[i]
    /\ R.s.dataPtr[j] = dataPtr[j]
    /\ R.s.unshareable[j] = unshareable[j]
    /\ Contents(R.s, j) = Contents(Cur, j)
    /\ dataPtr[j] # NULL => R.s.heap[dataPtr[j]] = heap[dataPtr[j]]

\* C14: copy construction and copy assignment (allocations succeeding) from
\* a source that is not pinned make the new or assigned-to instance point at
\* the source's cell without a clone; from a pinned source they give it a
\* fresh cell with the source's entry sequence that no other instance
\* references; either way the instance is left unpinned and the source keeps
\* its storage, flag and entries.
C14_CopySemantics ==
    \A j \in Live : \A i \in Inst \ {j} :
        IF live[i]
        THEN C14_Copied(i, j, assign_copy(Cur, i, j, FALSE))
        ELSE C14_Copied(i, j, kvfifo_copy(Cur, i, j, FALSE))

-----------------------------------------------------------------------------
\* The pinned flag of instance i after a successful call.
C15_FlagIs(i, R, flag) == R.status = "ok" => R.s.unshareable[i] = flag

\* C15: every successful push, pop, pop(k), move_to_back and clear leaves
\* the called instance's pinned flag cleared, whatever its flag and storage
\* (null storage included) were before; every successful non-const front,
\* back, first and last leaves it set.
C15_FlagAfterCall ==
    \A i \in Live :
        /\ AllMutations(i, LAMBDA R : C15_FlagIs(i, R, FALSE))
        /\ AllAccesses(i, LAMBDA R : C15_FlagIs(i, R, TRUE))

-----------------------------------------------------------------------------
\* A read-only call returned R and left everything as it was: liveness,
\* storage reference and pinned flag of every instance (hence the number of
\* instances at each cell) and every cell; no clone was made.
C16_Pure(R) == R.s = Cur /\ ~R.cloned

\* C16: size, empty, count, const front/back/first/last, k_begin and k_end,
\* whether they succeed or fail, change nothing and create no clone: in
\* every reachable state, every such call that can be made leaves the state
\* it found.
C16_ReadsChangeNothing ==
    \A i \in Live :
        /\ C16_Pure(size_const(Cur, i)) /\ C16_Pure(empty_const(Cur, i))
        /\ C16_Pure(front_const(Cur, i)) /\ C16_Pure(back_const(Cur, i))
        /\ C16_Pure(k_begin_const(Cur, i)) /\ C16_Pure(k_end_const(Cur, i))
        /\ \A k \in Key :
            /\ C16_Pure(count_const(Cur, i, k))
            /\ C16_Pure(first_const(Cur, i, k))
            /\ C16_Pure(last_const(Cur, i, k))

\* An unpinned instance that shares a non-empty cell with another one: its
\* const front() succeeds and its const first(k) fails for the key it does
\* not hold, where the non-const front() would clone and pin.
C16_Witness ==
    \E i \in Live : \E j \in Others(i) : \E k \in Key :
        /\ dataPtr[i] # NULL /\ dataPtr[i] = dataPtr[j] /\ ~unshareable[i]
        /\ front_const(Cur, i).status = "ok"
        /\ first_const(Cur, i, k).status = "Key not found"
        /\ front(Cur, i, FALSE).cloned
        /\ front(Cur, i, FALSE).s # Cur

-----------------------------------------------------------------------------
\* Another live instance points at the cell of instance i.
C17_Shared(i) == dataPtr[i] # NULL /\ \E j \in Others(i) : dataPtr[j] = dataPtr[i]

\* A successful mutating call cloned exactly if the cell was shared, and
\* left the instance alone at its cell.
C17_Owned(i, R) ==
    R.status = "ok" =>
        /\ R.cloned <=> C17_Shared(i)
        /\ R.s.dataPtr[i] # NULL => use_count(R.s, R.s.dataPtr[i], 0) = 1

\* C17: in every reachable state, aboutToModify on an instance (the guard
\* holding its reference) clones the storage exactly if another live
\* instance points at the same cell; so every successful structural mutation
\* and non-const accessor leaves the instance the only one at its cell, and
\* a call on an unshared instance makes no clone.
C17_CloneIffShared ==
    \A i \in Live :
        /\ dataPtr[i] # NULL =>
            \A mark \in BOOLEAN :
                aboutToModify(Cur, i, mark, FALSE).cloned <=> C17_Shared(i)
        /\ AllMutations(i, LAMBDA R : C17_Owned(i, R))
        /\ AllAccesses(i, LAMBDA R : C17_Owned(i, R))

\* Two instances at one cell: pop() on one of them clones and leaves each
\* alone at a cell, and a front() that follows on it finds nothing to clone.
C17_Witness ==
    \E i \in Live : \E j \in Others(i) :
        /\ C17_Shared(i) /\ dataPtr[j] = dataPtr[i] /\ size(Cur, i) >= 2
        /\ LET R == pop(Cur, i, FALSE)
               F == front(R.s, i, FALSE)
           IN  /\ R.status = "ok" /\ R.cloned
               /\ R.s.dataPtr[i] # R.s.dataPtr[j]
               /\ use_count(R.s, R.s.dataPtr[j], 0) = 1
               /\ F.status = "ok" /\ ~F.cloned

-----------------------------------------------------------------------------
\* C18: for every reachable queue and every key k with count(k) > 0, a
\* second move_to_back(k) right after the first one succeeds and leaves the
\* queue (the same nodes in the same order, hence the same entries) and
\* every bucket as the first call left them.
C18_MoveToBackIdempotent ==
    \A i \in Live : \A k \in Key :
        count(Cur, i, k) > 0 =>
            LET once == move_to_back(Cur, i, k, FALSE)
                twice == move_to_back(once.s, i, k, FALSE)
            IN  /\ once.status = "ok" /\ twice.status = "ok"
                /\ PairList(twice.s, i) = PairList(once.s, i)
                /\ ItMap(twice.s, i) = ItMap(once.s, i)
                /\ Contents(twice.s, i) = Contents(once.s, i)

\* (1,1),(2,1),(1,2): the first move_to_back(1) changes the order to
\* (2,1),(1,1),(1,2), the second one leaves it.
C18_Witness ==
    \E i \in Live :
        /\ Contents(Cur, i) = <<<<1, 1>>, <<2, 1>>, <<1, 2>>>>
        /\ LET once == move_to_back(Cur, i, 1, FALSE)
               twice == move_to_back(once.s, i, 1, FALSE)
           IN  /\ Contents(once.s, i) = <<<<2, 1>>, <<1, 1>>, <<1, 2>>>>
               /\ Contents(twice.s, i) = Contents(once.s, i)

-----------------------------------------------------------------------------
\* A call on an instance with null storage ended without reading through
\* the null reference.
C19_NoNullDeref(R) == R.status # "crash"

\* A copy of source j, by construction or by assignment, into instance i.
C19_CopyOf(i, j) ==
    IF live[i] THEN assign_copy(Cur, i, j, FALSE) ELSE kvfifo_copy(Cur, i, j, FALSE)

\* C19: an instance whose storage reference is null, whatever its pinned
\* flag, behaves as an empty queue under every public operation: size() is
\* 0, empty() holds, every count is 0, key iteration produces nothing, push
\* makes it a queue of one entry, no call reads through the null reference,
\* and a copy of it (constructed or assigned) is an empty, unpinned
\* instance.
C19_NullIsEmpty ==
    \A j \in Live :
        dataPtr[j] = NULL =>
            /\ size(Cur, j) = 0 /\ empty(Cur, j)
            /\ \A k \in Key : count(Cur, j, k) = 0
            /\ k_keys(Cur, j) = <<>>
            /\ AllMutations(j, C19_NoNullDeref)
            /\ AllAccesses(j, C19_NoNullDeref)
            /\ clear(Cur, j, FALSE).status = "ok"
            /\ \A k \in Key, v \in Val :
                LET R == push(Cur, j, k, v, "none")
                IN  R.status = "ok" /\ Contents(R.s, j) = <<<<k, v>>>>
            /\ \A i \in Inst \ {j} :
                LET R == C19_CopyOf(i, j)
                IN  /\ R.status = "ok"
                    /\ R.s.live[i] /\ empty(R.s, i) /\ ~R.s.unshareable[i]

-----------------------------------------------------------------------------
\* The non-const accessor returned R where the const one returns C: if it
\* succeeded, the const one succeeds with the same (key, value), the
\* reference returned denotes an entry with that pair in the storage the
\* instance now holds, and every instance, the called one included, has
\* the size, counts and ordered entries it had.
C20_Same(i, R, C) ==
    R.status = "ok" =>
        /\ C.status = "ok" /\ R.ret = C.ret
        /\ R.tgt.cell = R.s.dataPtr[i]
        /\ Pair(Deref(PairList(R.s, i), R.tgt.node)) = R.ret
        /\ SameObs(R.s, Live)

\* C20: a successful non-const front(), back(), first(k) or last(k) returns
\* the (key, value) the const accessor returns in the state before the call
\* and leaves the instance's entry sequence, size and counts unchanged, also
\* when it clones shared storage; the other instances keep their entries.
C20_MutableAccessorAgrees ==
    \A i \in Live :
        /\ C20_Same(i, front(Cur, i, FALSE), front_const(Cur, i))
        /\ C20_Same(i, back(Cur, i, FALSE), back_const(Cur, i))
        /\ \A k \in Key :
            /\ C20_Same(i, first(Cur, i, k, FALSE), first_const(Cur, i, k))
            /\ C20_Same(i, last_(Cur, i, k, FALSE), last_const(Cur, i, k))

\* An instance that shares three entries with another one, the key asked
\* for twice among them and not at the back: last(k) clones, moves the
\* instance to the clone and returns the pair the const last(k) returns.
C20_Witness ==
    \E i \in Live : \E j \in Others(i) : \E k \in Key :
        /\ dataPtr[i] # NULL /\ dataPtr[i] = dataPtr[j]
        /\ size(Cur, i) = 3 /\ count(Cur, i, k) = 2
        /\ Contents(Cur, i)[3][1] # k
        /\ Contents(Cur, i)[1] # Contents(Cur, i)[2]
        /\ LET R == last_(Cur, i, k, FALSE)
           IN  /\ R.status = "ok" /\ R.cloned
               /\ R.s.dataPtr[i] # dataPtr[i]
               /\ R.ret = last_const(Cur, i, k).ret
               /\ R.ret = Contents(Cur, i)[2]

====
